---- MODULE Spec2Model ----
(***************************************************************************)
(* pipeguard: a framed, optionally encrypted message channel over a named  *)
(* pipe, with optional same-executable-path enforcement.                   *)
(*                                                                         *)
(* Modelled here: NamedPipeClientStruct (src/src/client.rs), the helpers   *)
(* of src/src/utils.rs, and the accept/dispatch loop of the server that    *)
(* examples/path_enforcement.rs drives.                                    *)
(***************************************************************************)
EXTENDS Integers, Sequences, FiniteSets, TLC

(***************************************************************************)
(* Lengths.  A usize length is kept as hi * 2^16 + lo, so that the u32     *)
(* prefix keeps its true width of 32 bits (2^32 itself does not fit a      *)
(* 32-bit signed integer).                                                 *)
(***************************************************************************)
Half == 256 * 256

NFromInt(i) == [hi |-> i \div Half, lo |-> i % Half]

NZero == NFromInt(0)

NAdd(a, b) ==
    [hi |-> a.hi + b.hi + ((a.lo + b.lo) \div Half), lo |-> (a.lo + b.lo) % Half]

NLeq(a, b) == a.hi < b.hi \/ (a.hi = b.hi /\ a.lo <= b.lo)

NLess(a, b) == NLeq(a, b) /\ a # b

\* a - b, for b <= a
NSub(a, b) ==
    IF a.lo >= b.lo
    THEN [hi |-> a.hi - b.hi, lo |-> a.lo - b.lo]
    ELSE [hi |-> a.hi - b.hi - 1, lo |-> a.lo + Half - b.lo]

\* 2^32, the first length that does not fit the prefix
TwoTo32 == [hi |-> Half, lo |-> 0]

(***************************************************************************)
(* Byte strings.  A byte string is a sequence of runs [b, n]: n copies of  *)
(* byte b, n > 0, adjacent runs of different bytes.  The form is canonical,*)
(* so two byte strings are equal iff their run sequences are equal.        *)
(***************************************************************************)
Run(b, n) == [b |-> b, n |-> n]

BCat(s, t) ==
    IF s = <<>> THEN t
    ELSE IF t = <<>> THEN s
    ELSE IF s[Len(s)].b = t[1].b
    THEN SubSeq(s, 1, Len(s) - 1)
         \o <<Run(t[1].b, NAdd(s[Len(s)].n, t[1].n))>>
         \o Tail(t)
    ELSE s \o t

RECURSIVE Lit(_)
\* the byte string of a sequence of byte values
Lit(q) ==
    IF q = <<>> THEN <<>>
    ELSE BCat(<<Run(q[1], NFromInt(1))>>, Lit(Tail(q)))

\* n copies of byte b
Rep(b, n) == IF n = NZero THEN <<>> ELSE <<Run(b, n)>>

RECURSIVE BLen(_)
\* the number of bytes of s, by halves of its run sequence
BLen(s) ==
    IF s = <<>> THEN NZero
    ELSE IF Len(s) = 1 THEN s[1].n
    ELSE LET m == Len(s) \div 2
         IN  NAdd(BLen(SubSeq(s, 1, m)), BLen(SubSeq(s, m + 1, Len(s))))

RECURSIVE BTake(_, _)
\* the first n bytes of s (all of s when it is shorter)
BTake(s, n) ==
    IF s = <<>> \/ n = NZero THEN <<>>
    ELSE IF NLeq(s[1].n, n)
    THEN <<s[1]>> \o BTake(Tail(s), NSub(n, s[1].n))
    ELSE <<Run(s[1].b, n)>>

RECURSIVE BDrop(_, _)
\* s without its first n bytes
BDrop(s, n) ==
    IF s = <<>> \/ n = NZero THEN s
    ELSE IF NLeq(s[1].n, n)
    THEN BDrop(Tail(s), NSub(n, s[1].n))
    ELSE <<Run(s[1].b, NSub(s[1].n, n))>> \o Tail(s)

\* the byte at 1-based position i
ByteAt(s, i) == BTake(BDrop(s, NFromInt(i - 1)), NFromInt(1))[1].b

\* s with the byte at 1-based position i replaced by v
SetByte(s, i, v) ==
    BCat(BCat(BTake(s, NFromInt(i - 1)), Lit(<<v>>)), BDrop(s, NFromInt(i)))

RECURSIVE ByteSum(_)
\* the sum of the bytes of s, modulo 256
ByteSum(s) ==
    IF s = <<>> THEN 0
    ELSE IF Len(s) = 1 THEN (s[1].b * (s[1].n.lo % 256)) % 256
    ELSE LET m == Len(s) \div 2
         IN  (ByteSum(SubSeq(s, 1, m)) + ByteSum(SubSeq(s, m + 1, Len(s)))) % 256

RECURSIVE Expand(_)
\* the plain sequence of byte values of a short byte string
Expand(s) ==
    IF s = <<>> THEN <<>>
    ELSE <<s[1].b>> \o Expand(BDrop(s, NFromInt(1)))

(***************************************************************************)
(* Results.  Result<T> as a record: ok, the error (NamedPipeError) and the *)
(* value.  Io errors carry their std::io::ErrorKind.                       *)
(***************************************************************************)
\* Option<T>: None is the empty sequence, Some(v) the sequence of v alone
None == <<>>

Some(v) == <<v>>

Ok(v) == [ok |-> TRUE, err |-> "none", val |-> v]

Err(e) == [ok |-> FALSE, err |-> e, val |-> <<>>]

NotConnected == "NotConnected"

IoInvalidData == "Io(InvalidData)"

IoPermissionDenied == "Io(PermissionDenied)"

IoOther == "Io(Other)"

\* the transport's own failures: the open failed, the pipe broke, the stream ended
IoNotFound == "Io(NotFound)"

IoBrokenPipe == "Io(BrokenPipe)"

IoUnexpectedEof == "Io(UnexpectedEof)"

(***************************************************************************)
(* The AEAD (ChaCha20Poly1305 of the chacha20poly1305 crate), by its       *)
(* contract: the ciphertext is the masked plaintext followed by a 16-byte  *)
(* tag, and decrypt accepts exactly what encrypt produced under the same   *)
(* key and nonce.  A key is named by a small number.                       *)
(***************************************************************************)
NonceLen == 12

TagLen == 16

DefaultKey == 1

Keys == {DefaultKey, DefaultKey + 1}

KeyStream(key, nonce) == 1 + ((key + ByteSum(nonce)) % 255)

\* every byte of s moved by k, modulo 256
Shift(s, k) == [i \in 1..Len(s) |-> Run((s[i].b + k) % 256, s[i].n)]

AeadTag(key, nonce, pt) ==
    BCat(BCat(Lit(<<key>>), nonce),
         Lit(<<BLen(pt).lo % 256, (BLen(pt).lo \div 256) % 256, ByteSum(pt)>>))

AeadEncrypt(key, nonce, pt) ==
    BCat(Shift(pt, KeyStream(key, nonce)), AeadTag(key, nonce, pt))

\* decrypt that does not look at the tag
AeadDecryptUnchecked(key, nonce, ct) ==
    IF NLess(BLen(ct), NFromInt(TagLen)) THEN Err("aead::Error")
    ELSE Ok(Shift(BTake(ct, NSub(BLen(ct), NFromInt(TagLen))),
                  256 - KeyStream(key, nonce)))

AeadDecrypt(key, nonce, ct) ==
    IF NLess(BLen(ct), NFromInt(TagLen)) THEN Err("aead::Error")
    ELSE LET pt == Shift(BTake(ct, NSub(BLen(ct), NFromInt(TagLen))),
                         256 - KeyStream(key, nonce))
         IN  IF AeadEncrypt(key, nonce, pt) = ct THEN Ok(pt) ELSE Err("aead::Error")

(***************************************************************************)
(* utils.rs: encrypt_message, decrypt_message.  The nonce OsRng draws is   *)
(* an input.                                                               *)
(***************************************************************************)
\* encrypt_message sealing under a fixed nonce while prepending the drawn one
encrypt_message_reused_nonce(cipher, data, nonce) ==
    Ok(BCat(nonce, AeadEncrypt(cipher, Rep(0, NFromInt(NonceLen)), data)))

encrypt_message(cipher, data, nonce) ==
    LET ciphertext == AeadEncrypt(cipher, nonce, data)
    IN  Ok(BCat(nonce, ciphertext))

\* decrypt_message over a decrypt that does not authenticate
decrypt_message_no_auth(cipher, data) ==
    IF NLess(BLen(data), NFromInt(NonceLen)) THEN Err(IoInvalidData)
    ELSE LET r == AeadDecryptUnchecked(cipher, BTake(data, NFromInt(NonceLen)),
                                       BDrop(data, NFromInt(NonceLen)))
         IN  IF r.ok THEN Ok(r.val) ELSE Err(IoInvalidData)

\* decrypt_message telling a short message from a failed authentication
decrypt_message_short_is_eof(cipher, data) ==
    IF NLess(BLen(data), NFromInt(NonceLen)) THEN Err(IoUnexpectedEof)
    ELSE LET plaintext == AeadDecrypt(cipher, BTake(data, NFromInt(NonceLen)),
                                       BDrop(data, NFromInt(NonceLen)))
         IN  IF plaintext.ok THEN Ok(plaintext.val) ELSE Err(IoInvalidData)

decrypt_message(cipher, data) ==
    IF NLess(BLen(data), NFromInt(NonceLen)) THEN Err(IoInvalidData)
    ELSE LET nonce_bytes == BTake(data, NFromInt(NonceLen))
             ciphertext == BDrop(data, NFromInt(NonceLen))
             plaintext == AeadDecrypt(cipher, nonce_bytes, ciphertext)
         IN  IF plaintext.ok THEN Ok(plaintext.val) ELSE Err(IoInvalidData)

(***************************************************************************)
(* The frame: a 4-byte little-endian u32 length, then the payload.         *)
(***************************************************************************)
PrefixLen == 4

\* `len() as u32`: the low 32 bits
AsU32(n) == [hi |-> n.hi % Half, lo |-> n.lo]

\* u32::to_le_bytes
ToLeBytes(u) ==
    Lit(<<u.lo % 256, u.lo \div 256, u.hi % 256, u.hi \div 256>>)

\* u32::from_le_bytes(..) as usize
FromLeBytes(p) ==
    LET q == Expand(p)
    IN  [hi |-> q[3] + 256 * q[4], lo |-> q[1] + 256 * q[2]]

(***************************************************************************)
(* The string and JSON layers.  A Rust String is its UTF-8 bytes, so       *)
(* as_bytes changes nothing and from_utf8 is a validation.                 *)
(***************************************************************************)
Cont(b) == 128 <= b /\ b <= 191

\* the continuation bytes the lead byte b needs, or -1 when b leads nothing
Need(b) ==
    IF 194 <= b /\ b <= 223 THEN 1
    ELSE IF 224 <= b /\ b <= 239 THEN 2
    ELSE IF 240 <= b /\ b <= 244 THEN 3
    ELSE -1

\* the range the byte after lead byte b must lie in
SecondOk(b, c) ==
    IF b = 224 THEN 160 <= c /\ c <= 191
    ELSE IF b = 237 THEN 128 <= c /\ c <= 159
    ELSE IF b = 240 THEN 144 <= c /\ c <= 191
    ELSE IF b = 244 THEN 128 <= c /\ c <= 143
    ELSE Cont(c)

RECURSIVE IsUtf8(_)
IsUtf8(s) ==
    IF s = <<>> THEN TRUE
    ELSE IF s[1].b < 128 THEN IsUtf8(Tail(s))
    ELSE LET b == s[1].b
             k == Need(b)
             rest == Expand(BTake(BDrop(s, NFromInt(1)), NFromInt(IF k < 0 THEN 0 ELSE k)))
         IN  /\ k > 0
             /\ Len(rest) = k
             /\ SecondOk(b, rest[1])
             /\ \A i \in 2..k : Cont(rest[i])
             /\ IsUtf8(BDrop(s, NFromInt(1 + k)))

\* String::from_utf8(data).map_err(..)
from_utf8(data) == IF IsUtf8(data) THEN Ok(data) ELSE Err(IoInvalidData)

\* the values of the message type T: Option<bool>, and a value whose
\* Serialize implementation fails (serde_json::to_string returns Err)
JsonNull == "null"

JsonTrue == "true"

JsonFalse == "false"

JsonUnserializable == "unserializable"

JsonValues == {JsonNull, JsonTrue, JsonFalse, JsonUnserializable}

JsonText(v) ==
    IF v = JsonNull THEN Lit(<<110, 117, 108, 108>>)
    ELSE IF v = JsonTrue THEN Lit(<<116, 114, 117, 101>>)
    ELSE Lit(<<102, 97, 108, 115, 101>>)

\* serde_json::to_string(message).map_err(..)
to_string(v) ==
    IF v = JsonUnserializable THEN Err(IoInvalidData) ELSE Ok(JsonText(v))

JsonSpace(b) == b \in {32, 9, 10, 13}

RECURSIVE Trim(_)
\* json without the whitespace around it
Trim(s) ==
    IF s = <<>> THEN s
    ELSE IF JsonSpace(s[1].b) THEN Trim(Tail(s))
    ELSE IF JsonSpace(s[Len(s)].b) THEN Trim(SubSeq(s, 1, Len(s) - 1))
    ELSE s

\* serde_json::from_str::<Option<bool>>(json).map_err(..)
from_str(json) ==
    LET t == Trim(json)
    IN  IF \E v \in {JsonNull, JsonTrue, JsonFalse} : JsonText(v) = t
        THEN Ok(CHOOSE v \in {JsonNull, JsonTrue, JsonFalse} : JsonText(v) = t)
        ELSE Err(IoInvalidData)

(***************************************************************************)
(* utils.rs: the identity resolver.  A process is what the operating       *)
(* system answers about it: whether the pipe handle yields its PID,        *)
(* whether OpenProcess and QueryFullProcessImageNameW succeed, and its     *)
(* image path as UTF-16 code units.                                        *)
(***************************************************************************)
HighSurrogate(u) == 55296 <= u /\ u <= 56319

LowSurrogate(u) == 56320 <= u /\ u <= 57343

ReplacementChar == 65533

RECURSIVE from_utf16_lossy(_)
\* String::from_utf16_lossy: the code points, each unpaired surrogate
\* replaced by U+FFFD
from_utf16_lossy(u) ==
    IF u = <<>> THEN <<>>
    ELSE IF HighSurrogate(u[1]) /\ Len(u) >= 2 /\ LowSurrogate(u[2])
    THEN <<65536 + (u[1] - 55296) * 1024 + (u[2] - 56320)>>
         \o from_utf16_lossy(SubSeq(u, 3, Len(u)))
    ELSE IF HighSurrogate(u[1]) \/ LowSurrogate(u[1])
    THEN <<ReplacementChar>> \o from_utf16_lossy(Tail(u))
    ELSE <<u[1]>> \o from_utf16_lossy(Tail(u))

\* OsStr::to_string_lossy: the path's code points, each unpaired surrogate
\* replaced by U+FFFD
to_string_lossy(u) == from_utf16_lossy(u)

AsciiLower(c) == IF 65 <= c /\ c <= 90 THEN c + 32 ELSE c

eq_ignore_ascii_case(a, b) ==
    /\ Len(a) = Len(b)
    /\ \A i \in 1..Len(a) : AsciiLower(a[i]) = AsciiLower(b[i])

get_process_path(proc) ==
    IF ~proc.openOk THEN Err(IoPermissionDenied)
    ELSE IF ~proc.queryOk THEN Err(IoOther)
    ELSE Ok(from_utf16_lossy(proc.image))

\* get_server_pid / get_client_pid: the process at the other end of the handle
get_server_pid(peer) == IF peer.pidOk THEN Ok(peer) ELSE Err(IoOther)

get_client_pid(peer) == IF peer.pidOk THEN Ok(peer) ELSE Err(IoOther)

verify_same_path(other, self_exe) ==
    LET other_path == get_process_path(other)
    IN  IF ~other_path.ok THEN Err(other_path.err)
        ELSE LET self_path == to_string_lossy(self_exe)
             IN  IF ~eq_ignore_ascii_case(other_path.val, self_path)
                 THEN Err(IoPermissionDenied)
                 ELSE Ok(<<>>)

\* utils.rs: format_pipe_name, on the name's characters
PipePrefix == <<92, 92, 46, 92, 112, 105, 112, 101, 92>>

starts_with(name, prefix) ==
    Len(name) >= Len(prefix) /\ SubSeq(name, 1, Len(prefix)) = prefix

format_pipe_name(name) ==
    IF starts_with(name, PipePrefix) THEN name ELSE PipePrefix \o name

(***************************************************************************)
(* client.rs: NamedPipeClientStruct.  The struct is a record; `client` is  *)
(* None or Some(handle of the open transport).  A transport is what the    *)
(* client sees of the pipe: the process at its other end, the bytes        *)
(* written to it, the bytes that can be read from it, and whether the      *)
(* other end has closed it.                                                *)
(***************************************************************************)
new(name) ==
    [client |-> None, pipe_name |-> format_pipe_name(name), cipher |-> None,
     enforce_same_path_server |-> FALSE]

new_encrypted(name, key) ==
    [client |-> None, pipe_name |-> format_pipe_name(name),
     cipher |-> Some(IF key = None THEN DefaultKey ELSE key[1]),
     enforce_same_path_server |-> FALSE]

enforce_same_path_server(self, enforce) ==
    [self EXCEPT !.enforce_same_path_server = enforce]

is_connected(self) == self.client # None

\* whether verify_server_path goes on to resolve and compare the server's path
Verifies(self) == self.enforce_same_path_server /\ self.client # None

verify_server_path(self, peer, self_exe) ==
    IF ~self.enforce_same_path_server THEN Ok(<<>>)
    ELSE IF self.client = None THEN Err(NotConnected)
    ELSE LET server_pid == get_server_pid(peer)
         IN  IF ~server_pid.ok THEN Err(server_pid.err)
             ELSE verify_same_path(server_pid.val, self_exe)

\* a connect whose failed open also lets go of the transport held before
connect_open_failed_disconnects(self, err) ==
    [self |-> [self EXCEPT !.client = None], res |-> Err(err), verifs |-> 0, tries |-> 1]

\* connect, when ClientOptions::open has failed with `err`: the ? returns
\* the error of the one open, before self.client is assigned and before
\* verify_server_path is called
connect_open_failed(self, err) ==
    [self |-> self, res |-> Err(err), verifs |-> 0, tries |-> 1]

\* a connect that skips the verification
connect_unverified(self, handle, peer, self_exe) ==
    [self |-> [self EXCEPT !.client = Some(handle)], res |-> Ok(<<>>), verifs |-> 0]

\* connect, once ClientOptions::open has returned `handle`: the struct
\* after the call, the result, and how often the server's path was verified
connect(self, handle, peer, self_exe) ==
    LET opened == [self EXCEPT !.client = Some(handle)]
    IN  [self |-> opened,
         res |-> verify_server_path(opened, peer, self_exe),
         verifs |-> IF Verifies(opened) THEN 1 ELSE 0]

\* the bytes send_bytes writes for `data`: prefix, then payload
Frame(cipher, data, nonce) ==
    LET payload == IF cipher # None
                   THEN encrypt_message(cipher[1], data, nonce).val
                   ELSE data
        len == AsU32(BLen(payload))
    IN  BCat(ToLeBytes(len), payload)

\* a send_bytes that does not look whether there is a transport
send_bytes_unchecked(self, data, nonce, closed) ==
    IF closed THEN [res |-> Err(IoBrokenPipe), written |-> <<>>]
    ELSE [res |-> Ok(<<>>), written |-> Frame(self.cipher, data, nonce)]

\* send_bytes: the result and the bytes written to the transport
send_bytes(self, data, nonce, closed) ==
    IF self.client = None THEN [res |-> Err(NotConnected), written |-> <<>>]
    ELSE IF closed THEN [res |-> Err(IoBrokenPipe), written |-> <<>>]
    ELSE [res |-> Ok(<<>>), written |-> Frame(self.cipher, data, nonce)]

send_string(self, message, nonce, closed) == send_bytes(self, message, nonce, closed)

send_json(self, message, nonce, closed) ==
    LET json == to_string(message)
    IN  IF ~json.ok THEN [res |-> Err(json.err), written |-> <<>>]
        ELSE send_string(self, json.val, nonce, closed)

\* whether a receive on `stream` returns: both read_exact calls can be
\* satisfied, or the other end has closed the pipe
Readable(stream, closed) ==
    \/ closed
    \/ /\ NLeq(NFromInt(PrefixLen), BLen(stream))
       /\ NLeq(FromLeBytes(BTake(stream, NFromInt(PrefixLen))),
               BLen(BDrop(stream, NFromInt(PrefixLen))))

\* a receive_bytes that returns what it got when the stream ends early
receive_bytes_short_read(self, stream) ==
    IF self.client = None THEN [res |-> Err(NotConnected), rest |-> stream]
    ELSE LET len == IF NLess(BLen(stream), NFromInt(PrefixLen)) THEN NZero
                    ELSE FromLeBytes(BTake(stream, NFromInt(PrefixLen)))
             buffer == BTake(BDrop(stream, NFromInt(PrefixLen)), len)
         IN  [res |-> IF self.cipher # None
                      THEN decrypt_message(self.cipher[1], buffer)
                      ELSE Ok(buffer),
              rest |-> BDrop(BDrop(stream, NFromInt(PrefixLen)), len)]

\* receive_bytes: the result and what is left to read on the transport
receive_bytes(self, stream) ==
    IF self.client = None THEN [res |-> Err(NotConnected), rest |-> stream]
    ELSE IF NLess(BLen(stream), NFromInt(PrefixLen))
    THEN [res |-> Err(IoUnexpectedEof), rest |-> <<>>]
    ELSE LET len == FromLeBytes(BTake(stream, NFromInt(PrefixLen)))
             after == BDrop(stream, NFromInt(PrefixLen))
         IN  IF NLess(BLen(after), len)
             THEN [res |-> Err(IoUnexpectedEof), rest |-> <<>>]
             ELSE LET buffer == BTake(after, len)
                  IN  [res |-> IF self.cipher # None
                               THEN decrypt_message(self.cipher[1], buffer)
                               ELSE Ok(buffer),
                       rest |-> BDrop(after, len)]

receive_string(self, stream) ==
    LET data == receive_bytes(self, stream)
    IN  IF ~data.res.ok THEN data
        ELSE [res |-> from_utf8(data.res.val), rest |-> data.rest]

receive_json(self, stream) ==
    LET json == receive_string(self, stream)
    IN  IF ~json.res.ok THEN json
        ELSE LET v == from_str(json.res.val)
             IN  [res |-> IF v.ok THEN Ok(<<v.val>>) ELSE Err(v.err),
                  rest |-> json.rest]

\* a disconnect that leaves the transport in place
disconnect_keeps_transport(self) == self

\* a disconnect that also forgets the enforcement flag
disconnect_resets(self) ==
    [self EXCEPT !.client = None, !.enforce_same_path_server = FALSE]

disconnect(self) == [self EXCEPT !.client = None]

pipe_name(self) == self.pipe_name

(***************************************************************************)
(* State.                                                                  *)
(*   cl        the NamedPipeClientStruct                                   *)
(*   tr        the transport `cl.client` names                             *)
(*   self_exe  std::env::current_exe() of the client's process             *)
(*   held      the handles of the transports that are open                 *)
(*   opens     how many transports ClientOptions::open has returned        *)
(*   last      the last call on the client: its name, its JSON argument,   *)
(*             its result, and whether it opened a transport               *)
(*   dropped   the struct has been dropped                                 *)
(*   hist      what has happened on the transport `cl.client` names        *)
(*   ch, cr, sv  the channel, the crypto layer and the server, each under  *)
(*             its own specification below                                 *)
(***************************************************************************)
VARIABLES cl, tr, self_exe, held, opens, last, dropped, hist, ch, cr, sv

clientVars == <<cl, tr, self_exe, held, opens, last, dropped, hist>>

vars == <<cl, tr, self_exe, held, opens, last, dropped, hist, ch, cr, sv>>

\* how many transports the client's specification lets connect open
MaxOpens == 2

Proc(image) == [pidOk |-> TRUE, openOk |-> TRUE, queryOk |-> TRUE, image |-> image]

\* "C:a", "c:A" and "C:b"
PathA == <<67, 58, 97>>

PathAUpper == <<99, 58, 65>>

PathB == <<67, 58, 98>>

\* the servers a connect may find behind the pipe: the same executable, another
\* one, and one that OpenProcess cannot open
SpecPeers ==
    {Proc(PathAUpper), Proc(PathB), [Proc(PathA) EXCEPT !.openOk = FALSE]}

NoTransport ==
    [peer |-> Proc(<<>>), toServer |-> <<>>, toClient |-> <<>>, closed |-> FALSE]

NoHist ==
    [enforced |-> FALSE, verifs |-> 0, rejected |-> FALSE, io |-> FALSE,
     unverifiedIo |-> FALSE, afterDisconnect |-> FALSE]

\* "p" and "\\.\pipe\p"
PipeNames == {<<112>>, PipePrefix \o <<112>>}

Nonce1 == Rep(1, NFromInt(NonceLen))

Nonce2 == Rep(0, NFromInt(NonceLen))

\* empty, "true", and a byte that is no UTF-8
TextTrue == JsonText(JsonTrue)

SpecPayloads == {<<>>, TextTrue, Lit(<<255>>)}

\* what the server may write: frames of its own send_bytes, with and without
\* a cipher, and a frame cut short
PeerChunks ==
    {Frame(None, p, Nonce1) : p \in SpecPayloads}
        \cup {Frame(Some(DefaultKey), TextTrue, Nonce1), Lit(<<2, 0, 0, 0, 65>>)}

Idle == <<>>

\* the last call: its result, the client struct before it, how often it
\* called ClientOptions::open and how often it verified the server's path
CallN(op, json, res, opened, tries, verifs) ==
    [op |-> op, json |-> json, res |-> res, opened |-> opened, before |-> cl,
     tries |-> tries, verifs |-> verifs]

Call(op, json, res, opened) == CallN(op, json, res, opened, 0, 0)

Init ==
    /\ cl \in {new(n) : n \in PipeNames}
              \cup {new_encrypted(n, None) : n \in PipeNames}
    /\ tr = NoTransport
    /\ self_exe = PathA
    /\ held = {}
    /\ opens = 0
    /\ last = Call("new", "-", Ok(<<>>), FALSE)
    /\ dropped = FALSE
    /\ hist = NoHist
    /\ ch = Idle /\ cr = Idle /\ sv = Idle

EnforceSamePathServer ==
    /\ ~dropped
    /\ \E enforce \in BOOLEAN :
           /\ cl' = enforce_same_path_server(cl, enforce)
           /\ last' = Call("enforce_same_path_server", "-", Ok(<<>>), FALSE)
    /\ UNCHANGED <<tr, self_exe, held, opens, dropped, hist, ch, cr, sv>>

\* connect, when ClientOptions::open fails
ConnectOpenFails ==
    /\ ~dropped
    /\ LET c == connect_open_failed(cl, IoNotFound)
       IN  /\ cl' = c.self
           /\ last' = CallN("connect", "-", c.res, FALSE, c.tries, c.verifs)
           /\ hist' = [hist EXCEPT !.verifs = @ + c.verifs]
    /\ held' = {h \in held : cl'.client = Some(h)}
    /\ tr' = IF cl'.client = None THEN NoTransport ELSE tr
    /\ UNCHANGED <<self_exe, opens, dropped, ch, cr, sv>>

\* connect, when ClientOptions::open returns a transport: the assignment to
\* self.client drops the transport held before
Connect ==
    /\ ~dropped
    /\ opens < MaxOpens
    /\ \E peer \in SpecPeers :
           LET c == connect(cl, opens + 1, peer, self_exe)
           IN  /\ cl' = c.self
               /\ tr' = [NoTransport EXCEPT !.peer = peer]
               /\ last' = CallN("connect", "-", c.res, TRUE, 1, c.verifs)
               /\ hist' = [NoHist EXCEPT !.enforced = cl.enforce_same_path_server,
                                         !.verifs = c.verifs,
                                         !.rejected = ~c.res.ok]
    /\ held' = {opens + 1}
    /\ opens' = opens + 1
    /\ UNCHANGED <<self_exe, dropped, ch, cr, sv>>

Sent(op, json, r) ==
    /\ tr' = [tr EXCEPT !.toServer = BCat(@, r.written)]
    /\ last' = Call(op, json, r.res, FALSE)
    /\ hist' = IF r.written = <<>> THEN hist
               ELSE [hist EXCEPT !.io = TRUE,
                                 !.unverifiedIo = @ \/ (hist.enforced /\ hist.verifs = 0)]
    /\ UNCHANGED <<cl, self_exe, held, opens, dropped, ch, cr, sv>>

\* a write returns once the pipe's buffer, which holds one frame, has room
\* for it, or at once when the other end has closed the pipe
CanSend == ~dropped /\ (cl.client = None \/ tr.closed \/ tr.toServer = <<>>)

SendBytes ==
    /\ CanSend
    /\ \E data \in {<<>>, Lit(<<255>>)} :
           Sent("send_bytes", "-", send_bytes(cl, data, Nonce1, tr.closed))

SendString ==
    /\ CanSend
    /\ \E message \in {TextTrue} :
           Sent("send_string", "-", send_string(cl, message, Nonce1, tr.closed))

SendJson ==
    /\ CanSend
    /\ \E message \in {JsonTrue, JsonUnserializable} :
           Sent("send_json", message, send_json(cl, message, Nonce1, tr.closed))

\* a receive whose failure also disconnects the client
ReceivedDisconnecting(op, r) ==
    /\ cl' = IF r.res.ok THEN cl ELSE disconnect(cl)
    /\ held' = {h \in held : cl'.client = Some(h)}
    /\ tr' = IF cl'.client = None THEN NoTransport
             ELSE [tr EXCEPT !.toClient = r.rest]
    /\ last' = Call(op, "-", r.res, FALSE)
    /\ hist' = IF r.rest = tr.toClient THEN hist
               ELSE [hist EXCEPT !.io = TRUE,
                                 !.unverifiedIo = @ \/ (hist.enforced /\ hist.verifs = 0)]
    /\ UNCHANGED <<self_exe, opens, dropped, ch, cr, sv>>

Received(op, r) ==
    /\ tr' = [tr EXCEPT !.toClient = r.rest]
    /\ last' = Call(op, "-", r.res, FALSE)
    /\ hist' = IF r.rest = tr.toClient THEN hist
               ELSE [hist EXCEPT !.io = TRUE,
                                 !.unverifiedIo = @ \/ (hist.enforced /\ hist.verifs = 0)]
    /\ UNCHANGED <<cl, self_exe, held, opens, dropped, ch, cr, sv>>

CanReceive == ~dropped /\ (cl.client = None \/ Readable(tr.toClient, tr.closed))

ReceiveBytes == CanReceive /\ Received("receive_bytes", receive_bytes(cl, tr.toClient))

ReceiveString == CanReceive /\ Received("receive_string", receive_string(cl, tr.toClient))

ReceiveJson == CanReceive /\ Received("receive_json", receive_json(cl, tr.toClient))

VerifyServerPath ==
    /\ ~dropped
    /\ last' = Call("verify_server_path", "-", verify_server_path(cl, tr.peer, self_exe), FALSE)
    /\ UNCHANGED <<cl, tr, self_exe, held, opens, dropped, hist, ch, cr, sv>>

\* disconnect: self.client = None drops the transport, which closes it
Disconnect ==
    /\ ~dropped
    /\ cl' = disconnect(cl)
    /\ held' = {h \in held : cl'.client = Some(h)}
    /\ tr' = IF cl'.client = None THEN NoTransport ELSE tr
    /\ hist' = IF cl'.client = None
               THEN [NoHist EXCEPT !.afterDisconnect = TRUE]
               ELSE [hist EXCEPT !.afterDisconnect = TRUE]
    /\ last' = Call("disconnect", "-", Ok(<<>>), FALSE)
    /\ UNCHANGED <<self_exe, opens, dropped, ch, cr, sv>>

\* impl Drop: disconnect, and the struct is gone
Drop ==
    /\ ~dropped
    /\ dropped' = TRUE
    /\ cl' = disconnect(cl)
    /\ held' = {h \in held : cl'.client = Some(h)}
    /\ tr' = IF cl'.client = None THEN NoTransport ELSE tr
    /\ hist' = IF cl'.client = None
               THEN [NoHist EXCEPT !.afterDisconnect = TRUE]
               ELSE [hist EXCEPT !.afterDisconnect = TRUE]
    /\ last' = Call("drop", "-", Ok(<<>>), FALSE)
    /\ UNCHANGED <<self_exe, opens, ch, cr, sv>>

\* the server writes to its end of the pipe, once the client has read what
\* it wrote before
PeerWrite ==
    /\ cl.client # None /\ ~tr.closed
    /\ tr.toClient = <<>>
    /\ \E chunk \in PeerChunks :
           tr' = [tr EXCEPT !.toClient = chunk]
    /\ UNCHANGED <<cl, self_exe, held, opens, last, dropped, hist, ch, cr, sv>>

\* the server reads what the client wrote
PeerRead ==
    /\ cl.client # None /\ ~tr.closed
    /\ tr.toServer # <<>>
    /\ tr' = [tr EXCEPT !.toServer = <<>>]
    /\ UNCHANGED <<cl, self_exe, held, opens, last, dropped, hist, ch, cr, sv>>

\* the server closes its end of the pipe
PeerClose ==
    /\ cl.client # None /\ ~tr.closed
    /\ tr' = [tr EXCEPT !.closed = TRUE]
    /\ UNCHANGED <<cl, self_exe, held, opens, last, dropped, hist, ch, cr, sv>>

Next ==
    \/ EnforceSamePathServer
    \/ ConnectOpenFails
    \/ Connect
    \/ SendBytes
    \/ SendString
    \/ SendJson
    \/ ReceiveBytes
    \/ ReceiveString
    \/ ReceiveJson
    \/ VerifyServerPath
    \/ Disconnect
    \/ Drop
    \/ PeerWrite
    \/ PeerRead
    \/ PeerClose

Spec == Init /\ [][Next]_vars

IoOps ==
    {"send_bytes", "send_string", "send_json",
     "receive_bytes", "receive_string", "receive_json"}

(***************************************************************************)
(* C1: when enforcement is on and the verification of the server's path    *)
(* fails, connect returns an identity/permission error, and afterwards the *)
(* transport it opened is unusable: is_connected() is false and nothing is *)
(* exchanged over that transport.                                          *)
(***************************************************************************)
C1_RejectedTransportUnusable ==
    /\ (last.op = "connect" /\ last.opened /\ ~last.res.ok)
           => last.res.err \in {IoPermissionDenied, IoOther}
    /\ hist.rejected => (~is_connected(cl) /\ ~hist.io)

(***************************************************************************)
(* C2, as stated: from a disconnect() until a connect() opens a transport, *)
(* is_connected() is false and every send_* and receive_* fails with       *)
(* NotConnected.                                                           *)
(***************************************************************************)
C2_AllFailNotConnected ==
    hist.afterDisconnect =>
        /\ ~is_connected(cl)
        /\ last.op \in IoOps => (~last.res.ok /\ last.res.err = NotConnected)

(***************************************************************************)
(* C2, amended: from a disconnect() until a connect() opens a transport,   *)
(* is_connected() is false and every send_* and receive_* fails: with      *)
(* NotConnected, except that send_json of a message that does not          *)
(* serialize fails with Io(InvalidData).                                   *)
(***************************************************************************)
C2_AfterDisconnect ==
    hist.afterDisconnect =>
        /\ ~is_connected(cl)
        /\ last.op \in IoOps =>
               /\ ~last.res.ok
               /\ last.res.err =
                      IF last.op = "send_json" /\ ~to_string(last.json).ok
                      THEN IoInvalidData ELSE NotConnected

C2_Witness ==
    /\ hist.afterDisconnect /\ opens > 0 /\ ~dropped
    /\ last.op = "receive_json" /\ last.res.err = NotConnected

(***************************************************************************)
(* C4: on a transport that connect() opened with enforcement on, connect() *)
(* has verified the server's path exactly once, and no send or receive on  *)
(* that transport has taken place before that verification.                *)
(***************************************************************************)
C4_VerifiedOnceBeforeExchange ==
    (is_connected(cl) /\ hist.enforced) => (hist.verifs = 1 /\ ~hist.unverifiedIo)

C4_Witness ==
    is_connected(cl) /\ hist.enforced /\ hist.verifs = 1 /\ hist.io /\ ~hist.rejected

(***************************************************************************)
(* The identity resolver on its own: verify_server_path and                *)
(* verify_same_path, for every answer of the operating system and every    *)
(* pair of image paths.                                                    *)
(***************************************************************************)
\* "C:a", "c:A", "C:b", "C:" with capital and small e acute, with an unpaired
\* high and an unpaired low surrogate, with U+FFFD, and with a surrogate pair
Paths ==
    {PathA, PathAUpper, PathB, <<67, 58, 201>>, <<67, 58, 233>>,
     <<67, 58, 55296>>, <<67, 58, 56320>>, <<67, 58, 65533>>,
     <<67, 58, 55296, 56320>>}

VerifyPeers ==
    [pidOk : BOOLEAN, openOk : BOOLEAN, queryOk : BOOLEAN, image : Paths]

VerifyInit ==
    /\ cl \in {[new(<<112>>) EXCEPT !.client = c, !.enforce_same_path_server = e] :
                  c \in {None, Some(1)}, e \in BOOLEAN}
    /\ tr \in {[NoTransport EXCEPT !.peer = p] : p \in VerifyPeers}
    /\ self_exe \in Paths
    /\ held = {} /\ opens = 0 /\ dropped = FALSE /\ hist = NoHist
    /\ last = Call("new", "-", Ok(<<>>), FALSE)
    /\ ch = Idle /\ cr = Idle /\ sv = Idle

VerifySamePath ==
    /\ last' = Call("verify_same_path", "-", verify_same_path(tr.peer, self_exe), FALSE)
    /\ UNCHANGED <<cl, tr, self_exe, held, opens, dropped, hist, ch, cr, sv>>

VerifyNext == VerifyServerPath \/ VerifySamePath

VerifySpec == VerifyInit /\ [][VerifyNext]_vars

\* the two paths are the same up to the case of their letters
SamePathIgnoringCase(a, b) ==
    LET Fold(u) == IF (65 <= u /\ u <= 90) \/ (192 <= u /\ u <= 222 /\ u # 215)
                   THEN u + 32 ELSE u
    IN  Len(a) = Len(b) /\ \A i \in 1..Len(a) : Fold(a[i]) = Fold(b[i])

(***************************************************************************)
(* C3: with enforcement on, verification returns Ok only if the peer's PID *)
(* was obtained, its process was opened, its path was queried, and that    *)
(* path equals the caller's own executable path up to case; everything     *)
(* else is an error.                                                       *)
(***************************************************************************)
C3_FailsClosed ==
    /\ (last.op = "verify_server_path" /\ cl.enforce_same_path_server /\ last.res.ok)
           => /\ is_connected(cl)
              /\ tr.peer.pidOk /\ tr.peer.openOk /\ tr.peer.queryOk
              /\ SamePathIgnoringCase(tr.peer.image, self_exe)
    /\ (last.op = "verify_same_path" /\ last.res.ok)
           => /\ tr.peer.openOk /\ tr.peer.queryOk
              /\ SamePathIgnoringCase(tr.peer.image, self_exe)

(***************************************************************************)
(* The channel on its own: one end sends with send_bytes, the other reads  *)
(* with receive_bytes, each with its own cipher setting.                   *)
(*   ch.wire     the bytes written and not yet read                        *)
(*   ch.queue    the payloads whose frames lie in ch.wire, with the length *)
(*               of each frame                                             *)
(*   ch.aligned  the reader stands at the start of the first of them       *)
(*   ch.frame    the frame the last step wrote, if it was a send_bytes     *)
(*   ch.str      the result the last step returned, if it was a            *)
(*               receive_string, and the payload whose frame it started at *)
(*   ch.got      the result the last step returned, if it was a            *)
(*               receive_bytes, with the stream it read from and the       *)
(*               payload whose frame it started at                         *)
(***************************************************************************)
\* how many frames the pipe's buffer holds
MaxInFlight == 2

\* a payload of 2^32 + 1 bytes
BigPayload == BCat(Rep(0, TwoTo32), Lit(<<7>>))

\* two bytes sealed under the default key: a payload a caller may pass as it is
SealedPayload == encrypt_message(DefaultKey, Lit(<<7, 7>>), Nonce1).val

\* a byte that is no UTF-8
NoText == Lit(<<255>>)

ChannelPayloads == {<<>>, Lit(<<7, 7>>), BigPayload, SealedPayload, NoText}

Ciphers == {None} \cup {Some(k) : k \in Keys}

Connected(cipher) ==
    [new(<<112>>) EXCEPT !.client = Some(1), !.cipher = cipher]

ChannelInit ==
    /\ ch \in {[snd |-> Connected(c1), rcv |-> Connected(c2), wire |-> <<>>,
                closed |-> FALSE, queue |-> <<>>, aligned |-> TRUE,
                frame |-> <<>>, got |-> <<>>, str |-> <<>>] :
                   c1 \in Ciphers, c2 \in Ciphers}
    /\ cl = new(<<112>>) /\ tr = NoTransport /\ self_exe = PathA
    /\ held = {} /\ opens = 0 /\ dropped = FALSE /\ hist = NoHist
    /\ last = Call("new", "-", Ok(<<>>), FALSE)
    /\ cr = Idle /\ sv = Idle

\* the nonces send_bytes may draw with `inflight` frames in the pipe: without
\* a cipher it draws none, with one the draw differs from the one before
Drawn(self, inflight) ==
    IF self.cipher = None \/ inflight % 2 = 0 THEN {Nonce1} ELSE {Nonce2}

ChannelSend ==
    /\ ~ch.closed
    /\ Len(ch.queue) < MaxInFlight
    /\ \E data \in ChannelPayloads, nonce \in Drawn(ch.snd, Len(ch.queue)) :
           LET r == send_bytes(ch.snd, data, nonce, ch.closed)
           IN  ch' = [ch EXCEPT
                         !.wire = BCat(@, r.written),
                         !.queue = Append(@, [data |-> data, nonce |-> nonce,
                                           flen |-> BLen(r.written)]),
                         !.frame = <<[data |-> data, nonce |-> nonce, bytes |-> r.written]>>,
                         !.got = <<>>, !.str = <<>>]
    /\ UNCHANGED <<clientVars, cr, sv>>

\* the receive recorded in `rec` read a whole frame and failed on its data:
\* the payload did not decrypt, or was no UTF-8
DataError(rec) ==
    /\ rec # <<>>
    /\ rec[1].expect # None
    /\ ~rec[1].res.ok /\ rec[1].res.err = IoInvalidData

\* a reader that has lost the frame boundary is not followed further
ChannelReceive ==
    /\ ch.aligned
    /\ Readable(ch.wire, ch.closed)
    /\ LET r == receive_bytes(ch.rcv, ch.wire)
           consumed == NSub(BLen(ch.wire), BLen(r.rest))
           hit == ch.queue # <<>> /\ consumed = ch.queue[1].flen
       IN  ch' = [ch EXCEPT
                     !.wire = r.rest,
                     !.got = <<[res |-> r.res, stream |-> ch.wire,
                                expect |-> IF ch.queue # <<>>
                                           THEN Some(ch.queue[1].data) ELSE None,
                                nonce |-> IF ch.queue # <<>>
                                          THEN ch.queue[1].nonce ELSE <<>>,
                                prev |-> DataError(ch.got) \/ DataError(ch.str)]>>,
                     !.str = <<>>,
                     !.frame = <<>>,
                     !.aligned = ch.queue = <<>> \/ hit,
                     !.queue = IF ch.queue = <<>> THEN <<>> ELSE Tail(@)]
    /\ UNCHANGED <<clientVars, cr, sv>>

\* the reader calls receive_string
ChannelReceiveString ==
    /\ ch.aligned
    /\ Readable(ch.wire, ch.closed)
    /\ LET r == receive_string(ch.rcv, ch.wire)
           consumed == NSub(BLen(ch.wire), BLen(r.rest))
           hit == ch.queue # <<>> /\ consumed = ch.queue[1].flen
       IN  ch' = [ch EXCEPT
                     !.wire = r.rest,
                     !.str = <<[res |-> r.res,
                                expect |-> IF ch.queue # <<>>
                                           THEN Some(ch.queue[1].data) ELSE None]>>,
                     !.got = <<>>,
                     !.frame = <<>>,
                     !.aligned = ch.queue = <<>> \/ hit,
                     !.queue = IF ch.queue = <<>> THEN <<>> ELSE Tail(@)]
    /\ UNCHANGED <<clientVars, cr, sv>>

\* the sending end closes the pipe
ChannelClose ==
    /\ ~ch.closed
    /\ ch' = [ch EXCEPT !.closed = TRUE, !.frame = <<>>, !.got = <<>>, !.str = <<>>]
    /\ UNCHANGED <<clientVars, cr, sv>>

\* the sending end goes away in the middle of a send_bytes: a part of the
\* frame is written (a part of the prefix, the prefix alone, or all but the
\* last byte), and the pipe is closed
ChannelCut ==
    /\ ~ch.closed
    /\ LET r == send_bytes(ch.snd, Lit(<<7, 7>>), Nonce1, ch.closed)
       IN  \E n \in {1, PrefixLen, BLen(r.written).lo - 1} :
               ch' = [ch EXCEPT !.wire = BCat(@, BTake(r.written, NFromInt(n))),
                                !.closed = TRUE, !.frame = <<>>, !.got = <<>>, !.str = <<>>]
    /\ UNCHANGED <<clientVars, cr, sv>>

ChannelNext ==
    \/ ChannelSend
    \/ ChannelReceive
    \/ ChannelReceiveString
    \/ ChannelClose
    \/ ChannelCut

ChannelSpec == ChannelInit /\ [][ChannelNext]_vars

(***************************************************************************)
(* C5: on a channel without a cipher, a receive_bytes that reads the frame *)
(* send_bytes wrote for x returns exactly x, whatever the length of x.     *)
(***************************************************************************)
C5_FramingFidelity ==
    (/\ ch.snd.cipher = None /\ ch.rcv.cipher = None
     /\ ch.got # <<>> /\ ch.got[1].expect # None)
        => (ch.got[1].res.ok /\ ch.got[1].res.val = ch.got[1].expect[1])

(***************************************************************************)
(* C6: every frame send_bytes writes is a 4-byte little-endian prefix and  *)
(* then the payload, and the prefix's value is the payload's byte length,  *)
(* for every length of data.                                               *)
(***************************************************************************)
C6_PrefixIsPayloadLength ==
    ch.frame # <<>> =>
        LET f == ch.frame[1]
            prefix == BTake(f.bytes, NFromInt(PrefixLen))
            payload == BDrop(f.bytes, NFromInt(PrefixLen))
        IN  /\ BLen(prefix) = NFromInt(PrefixLen)
            /\ payload = IF ch.snd.cipher = None THEN f.data
                         ELSE encrypt_message(ch.snd.cipher[1], f.data, f.nonce).val
            /\ FromLeBytes(prefix) = BLen(payload)

(***************************************************************************)
(* The crypto layer on its own: encrypt_message, then possibly one byte of *)
(* the message changed or the message cut short, then decrypt_message.     *)
(***************************************************************************)
CryptoPayloads == {<<>>, Lit(<<7>>), TextTrue}

CryptoInit ==
    /\ cr \in {[stage |-> "plain", key |-> k, pt |-> p, msg |-> <<>>,
                tampered |-> FALSE, truncated |-> FALSE, key2 |-> k,
                out |-> Ok(<<>>)] : k \in Keys, p \in CryptoPayloads}
    /\ cl = new(<<112>>) /\ tr = NoTransport /\ self_exe = PathA
    /\ held = {} /\ opens = 0 /\ dropped = FALSE /\ hist = NoHist
    /\ last = Call("new", "-", Ok(<<>>), FALSE)
    /\ ch = Idle /\ sv = Idle

CryptoEncrypt ==
    /\ cr.stage = "plain"
    /\ \E nonce \in {Nonce1, Nonce2} :
           cr' = [cr EXCEPT !.stage = "sealed",
                            !.msg = encrypt_message(cr.key, cr.pt, nonce).val]
    /\ UNCHANGED <<clientVars, ch, sv>>

\* one position of the message, nonce or ciphertext, takes another value
CryptoTamper ==
    /\ cr.stage = "sealed" /\ ~cr.tampered /\ ~cr.truncated
    /\ \E i \in 1..BLen(cr.msg).lo :
           \E v \in (0..255) \ {ByteAt(cr.msg, i)} :
               cr' = [cr EXCEPT !.msg = SetByte(@, i, v), !.tampered = TRUE]
    /\ UNCHANGED <<clientVars, ch, sv>>

\* the message loses its end
CryptoTruncate ==
    /\ cr.stage = "sealed" /\ ~cr.tampered /\ ~cr.truncated
    /\ \E n \in 0..(BLen(cr.msg).lo - 1) :
           cr' = [cr EXCEPT !.msg = BTake(@, NFromInt(n)), !.truncated = TRUE]
    /\ UNCHANGED <<clientVars, ch, sv>>

CryptoDecrypt ==
    /\ cr.stage = "sealed"
    /\ \E key2 \in Keys :
           cr' = [cr EXCEPT !.stage = "opened", !.key2 = key2,
                            !.out = decrypt_message(key2, cr.msg)]
    /\ UNCHANGED <<clientVars, ch, sv>>

CryptoNext == CryptoEncrypt \/ CryptoTamper \/ CryptoTruncate \/ CryptoDecrypt

CryptoSpec == CryptoInit /\ [][CryptoNext]_vars

(***************************************************************************)
(* C7: decrypt_message of what encrypt_message produced, under the same    *)
(* key, succeeds and returns the plaintext, whatever the nonce.            *)
(***************************************************************************)
C7_RoundTrip ==
    (cr.stage = "opened" /\ ~cr.tampered /\ ~cr.truncated /\ cr.key2 = cr.key)
        => (cr.out.ok /\ cr.out.val = cr.pt)

C7_Witness ==
    /\ cr.stage = "opened" /\ ~cr.tampered /\ ~cr.truncated /\ cr.key2 = cr.key
    /\ cr.pt = TextTrue /\ cr.out.ok

(***************************************************************************)
(* C8: for a non-empty plaintext, after any one position of the nonce or   *)
(* of the ciphertext (tag included) has changed, decrypt_message under the *)
(* same key fails with a data error and returns no plaintext.              *)
(***************************************************************************)
C8_TamperDetected ==
    (cr.stage = "opened" /\ cr.tampered /\ cr.key2 = cr.key /\ cr.pt # <<>>)
        => (~cr.out.ok /\ cr.out.err = IoInvalidData /\ cr.out.val = <<>>)

C8_Witness ==
    /\ cr.stage = "opened" /\ cr.tampered /\ cr.key2 = cr.key /\ cr.pt = TextTrue
    /\ ~cr.out.ok

(***************************************************************************)
(* The server: the accept/dispatch loop of NamedPipeServerStruct::start    *)
(* and the handlers it spawns.                                             *)
(*   sv.state    Idle, Listening, Verifying, Dispatched or Stopped         *)
(*   sv.enforce  enforce_same_path_client                                  *)
(*   sv.next_id  the connection-id counter                                 *)
(*   sv.log      one entry per accepted transport, in accept order: the    *)
(*               client behind it, the verdict of the verification (None   *)
(*               when none was made), the connection's id, what became of  *)
(*               it, whether the transport is closed, whether the handler  *)
(*               was invoked for it, whether the server sent a frame on    *)
(*               it, and the listener's state once it was dealt with       *)
(***************************************************************************)
\* how many connections the server's specification lets it accept
MaxAccepts == 3

\* the server's side of the identity check: the verdict, None when not enforced
verify_client_path(enforce, peer, exe) ==
    IF ~enforce THEN None
    ELSE LET client_pid == get_client_pid(peer)
         IN  IF ~client_pid.ok THEN Some(Err(client_pid.err))
             ELSE Some(verify_same_path(client_pid.val, exe))

\* a loop that dispatches whatever the verdict
AdmitAll(verdict) == TRUE

\* whether the accepted transport becomes a Connection
Admit(verdict) == verdict = None \/ verdict[1].ok

\* an id read from the counter without the increment
next_connection_id_reused(counter) == counter

\* the atomic increment of the connection-id counter: the new value
next_connection_id(counter) == counter + 1

Accepted(peer) ==
    [peer |-> peer, verdict |-> None, id |-> None, status |-> "verifying",
     closed |-> FALSE, invoked |-> FALSE, sent |-> FALSE, then |-> "Verifying"]

ServerInit ==
    /\ sv = [state |-> "Idle", enforce |-> FALSE, next_id |-> 0, log |-> <<>>]
    /\ cl = new(<<112>>) /\ tr = NoTransport /\ self_exe = PathA
    /\ held = {} /\ opens = 0 /\ dropped = FALSE /\ hist = NoHist
    /\ last = Call("new", "-", Ok(<<>>), FALSE)
    /\ ch = Idle /\ cr = Idle

ServerEnforce ==
    /\ sv.state = "Idle"
    /\ \E enforce \in BOOLEAN : sv' = [sv EXCEPT !.enforce = enforce]
    /\ UNCHANGED <<clientVars, ch, cr>>

ServerStart ==
    /\ sv.state = "Idle"
    /\ sv' = [sv EXCEPT !.state = "Listening"]
    /\ UNCHANGED <<clientVars, ch, cr>>

ServerAccept ==
    /\ sv.state = "Listening"
    /\ Len(sv.log) < MaxAccepts
    /\ \E peer \in SpecPeers :
           sv' = [sv EXCEPT !.state = "Verifying", !.log = Append(@, Accepted(peer))]
    /\ UNCHANGED <<clientVars, ch, cr>>

\* the verification settles: the transport is closed, or it gets its id and
\* its handler is spawned
ServerVerify ==
    /\ sv.state = "Verifying"
    /\ LET i == Len(sv.log)
           verdict == verify_client_path(sv.enforce, sv.log[i].peer, self_exe)
           id == next_connection_id(sv.next_id)
       IN  IF Admit(verdict)
           THEN sv' = [sv EXCEPT !.state = "Dispatched", !.next_id = id,
                          !.log[i] = [@ EXCEPT !.verdict = verdict, !.id = Some(id),
                                               !.status = "running", !.invoked = TRUE,
                                               !.then = "Dispatched"]]
           ELSE sv' = [sv EXCEPT !.state = "Listening",
                          !.log[i] = [@ EXCEPT !.verdict = verdict,
                                               !.status = "rejected", !.closed = TRUE,
                                               !.then = "Listening"]]
    /\ UNCHANGED <<clientVars, ch, cr>>

ServerLoop ==
    /\ sv.state = "Dispatched"
    /\ sv' = [sv EXCEPT !.state = "Listening"]
    /\ UNCHANGED <<clientVars, ch, cr>>

\* the accept loop's task is aborted; the handlers go on
ServerAbort ==
    /\ sv.state \in {"Listening", "Verifying", "Dispatched"}
    /\ sv' = [sv EXCEPT
                 !.state = "Stopped",
                 !.log = [i \in DOMAIN sv.log |->
                              IF sv.log[i].status = "verifying"
                              THEN [sv.log[i] EXCEPT !.status = "aborted",
                                                     !.closed = TRUE, !.then = "Stopped"]
                              ELSE sv.log[i]]]
    /\ UNCHANGED <<clientVars, ch, cr>>

HandlerSend ==
    /\ \E i \in DOMAIN sv.log :
           /\ sv.log[i].status = "running" /\ ~sv.log[i].sent
           /\ sv' = [sv EXCEPT !.log[i].sent = TRUE]
    /\ UNCHANGED <<clientVars, ch, cr>>

\* a handler whose error takes the accept loop down with it
HandlerReturnStopsLoop ==
    /\ \E i \in DOMAIN sv.log, status \in {"done", "failed"} :
           /\ sv.log[i].status = "running"
           /\ sv' = [sv EXCEPT !.log[i].status = status, !.log[i].closed = TRUE,
                               !.state = IF status = "failed" THEN "Stopped" ELSE @]
    /\ UNCHANGED <<clientVars, ch, cr>>

\* the handler returns Ok or an error; its Connection is destroyed
HandlerReturn ==
    /\ \E i \in DOMAIN sv.log, status \in {"done", "failed"} :
           /\ sv.log[i].status = "running"
           /\ sv' = [sv EXCEPT !.log[i].status = status, !.log[i].closed = TRUE]
    /\ UNCHANGED <<clientVars, ch, cr>>

ServerNext ==
    \/ ServerEnforce \/ ServerStart \/ ServerAccept \/ ServerVerify
    \/ ServerLoop \/ ServerAbort \/ HandlerSend \/ HandlerReturn

ServerSpec == ServerInit /\ [][ServerNext]_vars

(***************************************************************************)
(* C9: the ids of the accepted connections are strictly increasing in      *)
(* accept order, so no two connections have the same id, whatever the      *)
(* handlers of the earlier ones are doing.                                 *)
(***************************************************************************)
C9_IdsUniqueIncreasing ==
    \A i, j \in DOMAIN sv.log :
        (i < j /\ sv.log[i].id # None /\ sv.log[j].id # None)
            => sv.log[i].id[1] < sv.log[j].id[1]

C9_Witness ==
    /\ Len(sv.log) = MaxAccepts
    /\ \A i \in DOMAIN sv.log : sv.log[i].id # None
    /\ sv.log[1].status = "running" /\ sv.log[2].status = "failed"

(***************************************************************************)
(* C10: with enforce_same_path_client on, a client whose verification has  *)
(* failed has its transport closed, its handler never invoked, no frame    *)
(* sent to it and no id, and the listener was back at Listening once the   *)
(* verification had settled.                                               *)
(***************************************************************************)
C10_RejectedNeverDispatched ==
    \A i \in DOMAIN sv.log :
        (/\ sv.enforce
         /\ sv.log[i].verdict # None
         /\ ~sv.log[i].verdict[1].ok)
            => /\ sv.log[i].closed
               /\ ~sv.log[i].invoked
               /\ ~sv.log[i].sent
               /\ sv.log[i].id = None
               /\ sv.log[i].then = "Listening"

C10_Witness ==
    \E i, j \in DOMAIN sv.log :
        /\ i < j
        /\ sv.enforce
        /\ sv.log[i].status = "rejected" /\ ~sv.log[i].verdict[1].ok
        /\ sv.log[j].status = "running"

(***************************************************************************)
(* C11: a handler that returns, with Ok or with an error, changes nothing  *)
(* but its own connection: the accept loop stays in the state it was in,   *)
(* the id counter and every other connection are untouched; and a          *)
(* listening server can accept whatever the handlers are doing, returned,  *)
(* failed or still running.                                                *)
(***************************************************************************)
C11_HandlerIsolation ==
    /\ []((sv.state = "Listening" /\ Len(sv.log) < MaxAccepts) => ENABLED ServerAccept)
    /\ [][\A i \in DOMAIN sv.log :
              (sv.log[i].status = "running" /\ sv'.log[i].status \in {"done", "failed"})
                  => /\ sv'.state = sv.state
                     /\ sv'.next_id = sv.next_id
                     /\ sv'.enforce = sv.enforce
                     /\ \A j \in DOMAIN sv.log \ {i} : sv'.log[j] = sv.log[j]]_vars

C11_Witness ==
    /\ Len(sv.log) = 3
    /\ sv.log[1].status = "failed" /\ sv.log[2].status = "running"
    /\ sv.log[3].status = "running" /\ sv.log[3].sent
    /\ sv.state = "Listening"

(***************************************************************************)
(* C12: when both ends have the same cipher setting, every successful      *)
(* receive_bytes returns the payload of the oldest send_bytes not yet      *)
(* received, and has read exactly the frame of that send: the k-th         *)
(* successful receive returns the k-th payload sent, no frame merged,      *)
(* split, reordered or read twice.                                         *)
(***************************************************************************)
C12_Fifo ==
    (/\ ch.snd.cipher = ch.rcv.cipher
     /\ ch.got # <<>> /\ ch.got[1].res.ok /\ ch.got[1].expect # None)
        => (ch.got[1].res.val = ch.got[1].expect[1] /\ ch.aligned)

(***************************************************************************)
(* C13: disconnect() never fails and changes nothing but the transport,    *)
(* which it releases: pipe name, cipher and enforcement flag stay; and a   *)
(* second disconnect(), or one on a client that never connected, leaves    *)
(* the client as it is.                                                    *)
(***************************************************************************)
C13_DisconnectIdempotent ==
    last.op = "disconnect" =>
        /\ last.res.ok
        /\ ~is_connected(cl)
        /\ cl = [last.before EXCEPT !.client = None]
        /\ disconnect(cl) = cl
        /\ ~is_connected(last.before) => cl = last.before

C13_Witness ==
    /\ last.op = "disconnect" /\ last.res.ok
    /\ ~is_connected(last.before) /\ hist.afterDisconnect /\ opens > 0
    /\ cl.enforce_same_path_server /\ cl.cipher # None

(***************************************************************************)
(* C14: at most one transport is open at any time, and it is the one the   *)
(* client names; after disconnect() and after the teardown none is open,   *)
(* and a connect() that opens a transport closes the one held before.      *)
(***************************************************************************)
C14_TransportReleased ==
    /\ Cardinality(held) <= 1
    /\ held = {h \in 1..opens : cl.client = Some(h)}
    /\ last.op \in {"disconnect", "drop"} => held = {}
    /\ dropped => held = {}

C14_Witness ==
    /\ dropped /\ held = {} /\ opens = 2
    /\ is_connected(last.before) /\ last.before.client = Some(2)

(***************************************************************************)
(* C15: when one end has a cipher and the other has none, a receiver with  *)
(* a cipher fails with a data error on the frame of a plaintext send, a    *)
(* receiver without one returns the nonce and ciphertext of an encrypted   *)
(* send as its result, and neither returns what the sender passed to       *)
(* send_bytes.                                                             *)
(***************************************************************************)
C15_CipherMismatch ==
    (/\ (ch.snd.cipher = None) # (ch.rcv.cipher = None)
     /\ ch.got # <<>> /\ ch.got[1].expect # None)
        => LET got == ch.got[1]
           IN  /\ ~(got.res.ok /\ got.res.val = got.expect[1])
               /\ ch.rcv.cipher # None
                      => (~got.res.ok /\ got.res.err = IoInvalidData)
               /\ ch.rcv.cipher = None
                      => /\ got.res.ok
                         /\ got.res.val =
                                encrypt_message(ch.snd.cipher[1], got.expect[1], got.nonce).val

(***************************************************************************)
(* C16: decrypt_message fails on a message cut short (below 12 bytes, or   *)
(* within its tag or ciphertext), on a message with a changed byte and     *)
(* under another key, and every failure is the same error, InvalidData     *)
(* with no plaintext: the error does not tell a wrong key from the rest.   *)
(***************************************************************************)
C16_OneErrorKind ==
    cr.stage = "opened" =>
        /\ (cr.key2 = cr.key /\ (cr.truncated \/ cr.tampered)) => ~cr.out.ok
        /\ (cr.key2 # cr.key /\ ~cr.tampered) => ~cr.out.ok
        /\ ~cr.out.ok => (cr.out.err = IoInvalidData /\ cr.out.val = <<>>)

C16_Witness ==
    /\ cr.stage = "opened" /\ cr.key2 # cr.key /\ ~cr.tampered /\ ~cr.truncated
    /\ ~cr.out.ok /\ cr.out.err = IoInvalidData

\* the I/O errors of the transport
IoErrors == {IoUnexpectedEof, IoBrokenPipe, IoNotFound, IoOther}

(***************************************************************************)
(* C17: a receive_bytes on a stream that ends before its 4 prefix bytes,   *)
(* or before the L payload bytes its prefix declares, fails with an I/O    *)
(* error; one that succeeds has read all L bytes, and without a cipher     *)
(* returns exactly L bytes.                                                *)
(***************************************************************************)
C17_ShortStreamFails ==
    ch.got # <<>> =>
        LET got == ch.got[1]
            short == NLess(BLen(got.stream), NFromInt(PrefixLen))
            L == FromLeBytes(BTake(got.stream, NFromInt(PrefixLen)))
            body == BDrop(got.stream, NFromInt(PrefixLen))
            early == short \/ NLess(BLen(body), L)
        IN  /\ early => (~got.res.ok /\ got.res.err \in IoErrors /\ got.res.val = <<>>)
            /\ got.res.ok => ~early
            /\ (got.res.ok /\ ch.rcv.cipher = None) => BLen(got.res.val) = L

C17_Witness ==
    /\ ch.got # <<>> /\ ch.closed
    /\ NLeq(NFromInt(PrefixLen), BLen(ch.got[1].stream))
    /\ NLess(BLen(BDrop(ch.got[1].stream, NFromInt(PrefixLen))),
             FromLeBytes(BTake(ch.got[1].stream, NFromInt(PrefixLen))))
    /\ ~ch.got[1].res.ok /\ ch.got[1].res.err = IoUnexpectedEof

(***************************************************************************)
(* C18, as stated: on a client without a transport every send_* and        *)
(* receive_* returns NotConnected, writes and reads no byte and leaves the *)
(* client struct as it was, and verify_server_path with enforcement on     *)
(* returns NotConnected.                                                   *)
(***************************************************************************)
C18_AllNotConnected ==
    /\ (last.op \in IoOps /\ ~is_connected(last.before)) =>
           /\ ~last.res.ok /\ last.res.err = NotConnected
           /\ cl = last.before
           /\ tr = NoTransport /\ ~hist.io
    /\ (last.op = "verify_server_path" /\ ~is_connected(last.before)
            /\ last.before.enforce_same_path_server) =>
           (~last.res.ok /\ last.res.err = NotConnected)

(***************************************************************************)
(* C18, amended: on a client without a transport every send_* and          *)
(* receive_* fails, writes and reads no byte and leaves the client struct  *)
(* as it was; the error is NotConnected, except that send_json of a        *)
(* message that does not serialize fails with Io(InvalidData); and         *)
(* verify_server_path with enforcement on returns NotConnected.            *)
(***************************************************************************)
C18_NotConnectedNoEffect ==
    /\ (last.op \in IoOps /\ ~is_connected(last.before)) =>
           /\ ~last.res.ok
           /\ last.res.err =
                  IF last.op = "send_json" /\ ~to_string(last.json).ok
                  THEN IoInvalidData ELSE NotConnected
           /\ cl = last.before
           /\ tr = NoTransport /\ ~hist.io
    /\ (last.op = "verify_server_path" /\ ~is_connected(last.before)
            /\ last.before.enforce_same_path_server) =>
           (~last.res.ok /\ last.res.err = NotConnected)

C18_Witness ==
    /\ opens = 0 /\ ~dropped /\ ~is_connected(last.before)
    /\ last.op = "send_bytes" /\ last.res.err = NotConnected
    /\ cl.enforce_same_path_server /\ cl = last.before

(***************************************************************************)
(* C19: a connect() whose open of the transport fails returns an I/O error *)
(* after one attempt to open, verifies no identity, and leaves the client  *)
(* struct, the transport it held and the open handles as they were.        *)
(***************************************************************************)
C19_FailedOpenNoEffect ==
    (last.op = "connect" /\ ~last.opened) =>
        /\ ~last.res.ok /\ last.res.err \in IoErrors
        /\ last.tries = 1
        /\ last.verifs = 0
        /\ cl = last.before
        /\ is_connected(cl) => held = {cl.client[1]}
        /\ ~is_connected(cl) => (held = {} /\ tr = NoTransport)

C19_Witness ==
    /\ last.op = "connect" /\ ~last.opened /\ last.res.err = IoNotFound
    /\ is_connected(cl) /\ cl.enforce_same_path_server /\ hist.verifs = 1
    /\ held = {cl.client[1]} /\ cl = last.before

(***************************************************************************)
(* C20: a send_* or receive_* that fails leaves the client struct as it    *)
(* was, so is_connected() is after the failure what it was before it; and  *)
(* a call after which is_connected() has turned from true to false is      *)
(* disconnect() or the drop of the struct.                                 *)
(***************************************************************************)
C20_FailureKeepsConnection ==
    /\ (last.op \in IoOps /\ ~last.res.ok) =>
           /\ cl = last.before
           /\ is_connected(last.before) => (is_connected(cl) /\ held = {cl.client[1]})
    /\ (is_connected(last.before) /\ ~is_connected(cl)) =>
           last.op \in {"disconnect", "drop"}

C20_Witness ==
    /\ last.op = "receive_json" /\ ~last.res.ok /\ last.res.err = IoInvalidData
    /\ is_connected(last.before) /\ is_connected(cl) /\ hist.io

(***************************************************************************)
(* C21: a receive_bytes or receive_string that fails on the data of a      *)
(* frame (it does not decrypt, or is no UTF-8) has consumed exactly that   *)
(* one frame, and the receive_bytes that follows it returns what           *)
(* receive_bytes returns for the next frame the peer sent.                 *)
(***************************************************************************)
C21_DataErrorConsumesFrame ==
    /\ DataError(ch.got) => ch.aligned
    /\ DataError(ch.str) => ch.aligned
    /\ (ch.got # <<>> /\ ch.got[1].prev /\ ch.got[1].expect # None) =>
           ch.got[1].res =
               receive_bytes(ch.rcv, Frame(ch.snd.cipher, ch.got[1].expect[1],
                                           ch.got[1].nonce)).res
====
